---- MODULE Spec2Model ----
(***************************************************************************)
(* Informatch: the get-match-suggestions edge function (the suggestion     *)
(* ranker) and the relationship store it reads (users, profiles, matches,  *)
(* blocked_users, notifications), together with the view-layer handlers    *)
(* that write to that store (Dashboard, Notifications, FriendList,         *)
(* BlockedUsersPage, SettingsPage, ProfileEditor).                         *)
(*                                                                         *)
(* Two schema generations exist in the repository:                         *)
(*   "status": matches rows carry status pending / accepted / rejected;    *)
(*   "split" : pending requests are match_request notifications and a      *)
(*             matches row exists only for an accepted connection.         *)
(* A third Dashboard ("direct") inserts the matches row of a connection    *)
(* itself, with no request at all.                                         *)
(* Text columns are sequences of one-character strings, so that split,     *)
(* trim and toLowerCase are computed and not assumed.                      *)
(***************************************************************************)
EXTENDS Integers, Sequences, FiniteSets, TLC

VARIABLES
    schema,         \* "status", "split" or "direct": the generation deployed
    users,          \* users table: user_id -> row (its domain: the users having a row)
    profiles,       \* profiles table: user_id -> row (its domain: the users having a profile)
    matches,        \* matches table: set of rows
    blocked_users,  \* blocked_users table: set of rows
    notifications,  \* notifications table: set of rows
    suggestions,    \* Dashboard state of each user: the loaded suggestion list
    toast,          \* the toast shown last: who saw it and its title
    response,       \* the last response of get-match-suggestions, with its request
    steps,          \* number of store writes performed so far
    lastWrite,      \* the handler that ran last: which one, for whom, on whom
    friendList,     \* FriendList state of each user: mounted, friends, blockedUsers
    events,         \* realtime payloads on their way to a subscribed FriendList
    actionLoading,  \* Dashboard state of each user: the target whose buttons are disabled
    inflight,       \* Dashboard requests of each user that were sent and not yet answered
    settingsPage,   \* SettingsPage state of each user: the three displayed flags
    editor          \* ProfileEditor state of each user: saving flag, uploads performed

vars == <<schema, users, profiles, matches, blocked_users, notifications,
          suggestions, toast, response, steps, lastWrite,
          friendList, events, actionLoading, inflight, settingsPage, editor>>

\* the state of the views other than the suggestion list
pages == <<friendList, events, actionLoading, inflight, settingsPage, editor>>

store == <<users, profiles, matches, blocked_users, notifications>>

-----------------------------------------------------------------------------
(* Bounds of the model *)

\* store writes explored from the initial state
MaxSteps == 2

\* rows the notifications table can hold (ids 1..MaxNotifications)
MaxNotifications == 2

\* rows of matches and blocked_users together in the stores the ranker is run on
MaxRows == 2

Users == {"u1", "u2", "u3"}

\* the users whose account is private (user_priset_is_private) from the start
InitiallyPrivate == {"u3"}

\* a NULL text column (no text is the one-element sequence <<"null">>)
Null == <<"null">>

-----------------------------------------------------------------------------
(* Text: split(','), trim(), toLowerCase() *)

ToLowerCase(c) ==
    CASE c = "A" -> "a"
      [] c = "B" -> "b"
      [] OTHER -> c

LowerText(s) == [i \in 1..Len(s) |-> ToLowerCase(s[i])]

RECURSIVE TrimStart(_)
TrimStart(s) ==
    IF s # <<>> /\ Head(s) = " " THEN TrimStart(Tail(s)) ELSE s

RECURSIVE TrimEnd(_)
TrimEnd(s) ==
    IF s # <<>> /\ s[Len(s)] = " " THEN TrimEnd(SubSeq(s, 1, Len(s) - 1)) ELSE s

Trim(s) == TrimEnd(TrimStart(s))

\* String.prototype.split(','): every segment between commas, empty ones included
RECURSIVE Split(_)
Split(s) ==
    IF \E i \in 1..Len(s) : s[i] = ","
    THEN LET i == CHOOSE k \in 1..Len(s) :
                      s[k] = "," /\ \A j \in 1..(k - 1) : s[j] # ","
         IN  <<SubSeq(s, 1, i - 1)>> \o Split(SubSeq(s, i + 1, Len(s)))
    ELSE <<s>>

Range(seq) == {seq[i] : i \in 1..Len(seq)}

\* index.ts: text ? text.split(',').map(i => i.trim().toLowerCase()) : []
ParseInterestsRanker(text) ==
    IF text = Null \/ text = <<>>
    THEN <<>>
    ELSE LET parts == Split(text)
         IN  [i \in 1..Len(parts) |-> LowerText(Trim(parts[i]))]

\* Dashboard.tsx: interests ? interests.split(',').map(i => i.trim()).filter(i => i) : []
parseInterests(text) ==
    IF text = Null \/ text = <<>>
    THEN <<>>
    ELSE LET parts == Split(text)
             trimmed == [i \in 1..Len(parts) |-> Trim(parts[i])]
         IN  SelectSeq(trimmed, LAMBDA t : t # <<>>)

\* current.filter(interest => candidate.includes(interest)).length
SharedCount(current, candidate) ==
    Len(SelectSeq(current, LAMBDA t : t \in Range(candidate)))

\* (sharedAcademic * 2) + sharedNonAcademic
CompatibilityScore(cur, cand) ==
    2 * SharedCount(ParseInterestsRanker(cur.profile_academic_interests),
                    ParseInterestsRanker(cand.profile_academic_interests))
    + SharedCount(ParseInterestsRanker(cur.profile_non_academic_interests),
                  ParseInterestsRanker(cand.profile_non_academic_interests))

-----------------------------------------------------------------------------
(* Table rows *)

UserRow(private) ==
    [user_priset_is_private |-> private,
     user_priset_show_age |-> TRUE,
     user_priset_show_bio |-> TRUE]

\* a username and a birthdate that pass the validation of ProfileEditor
SavedUsername == <<"n">>
SavedBirthdate == <<"1">>

ProfileRow(academic, nonAcademic) ==
    [profile_username |-> SavedUsername,
     profile_bio |-> Null,
     profile_birthdate |-> SavedBirthdate,
     profile_academic_interests |-> academic,
     profile_non_academic_interests |-> nonAcademic]

MatchRow(u1, u2, st) ==
    [match_user1_id |-> u1, match_user2_id |-> u2, status |-> st]

BlockRow(blocker, blocked) == [blocker_id |-> blocker, blocked_id |-> blocked]

NotificationRow(id, to, from, type) ==
    [id |-> id, user_id |-> to, from_user_id |-> from, type |-> type, read |-> FALSE]

\* the status column: absent ("-") in the split schema
NoStatus == "-"

Statuses == {"pending", "accepted", "rejected"}

-----------------------------------------------------------------------------
(* get-match-suggestions (supabase/functions/get-match-suggestions/index.ts) *)

ReadErrors ==
    {"none", "users", "createUser", "profile", "profiles", "matches",
     "blocked", "blockedBy"}

\* every order in which the rows of a set can be returned by a query without ORDER BY
Orders(S) ==
    {f \in [1..Cardinality(S) -> S] : \A i, j \in 1..Cardinality(S) : f[i] = f[j] => i = j}

\* a sort that puts a candidate before the earlier ones of equal score
InsertByScore_Unstable(sorted, x) ==
    LET k == Cardinality({i \in 1..Len(sorted) :
                            sorted[i].compatibility_score > x.compatibility_score})
    IN  SubSeq(sorted, 1, k) \o <<x>> \o SubSeq(sorted, k + 1, Len(sorted))

\* Array.prototype.sort((a, b) => b.score - a.score): stable, descending
InsertByScore(sorted, x) ==
    LET k == Cardinality({i \in 1..Len(sorted) :
                            sorted[i].compatibility_score >= x.compatibility_score})
    IN  SubSeq(sorted, 1, k) \o <<x>> \o SubSeq(sorted, k + 1, Len(sorted))

RECURSIVE SortByScore(_)
SortByScore(seq) ==
    IF seq = <<>>
    THEN <<>>
    ELSE InsertByScore(SortByScore(SubSeq(seq, 1, Len(seq) - 1)), seq[Len(seq)])

\* the query without .neq('user_id', user.id)
AllProfilesOf_WithSelf(user) ==
    {u \in DOMAIN profiles : u \in DOMAIN users}

\* .from('profiles').select('*, users!inner(...)').neq('user_id', user.id)
AllProfilesOf(user) ==
    {u \in DOMAIN profiles : u # user /\ u \in DOMAIN users}

\* the other endpoint of every matches row that has user as an endpoint
MatchedUserIds(user) ==
    {IF m.match_user1_id = user THEN m.match_user2_id ELSE m.match_user1_id :
        m \in {r \in matches : r.match_user1_id = user \/ r.match_user2_id = user}}

BlockedUserIds(user) ==
    {b.blocked_id : b \in {r \in blocked_users : r.blocker_id = user}}

\* the blocked-by lookup left out
BlockedByUserIds_NotRead(user) == {}

BlockedByUserIds(user) ==
    {b.blocker_id : b \in {r \in blocked_users : r.blocked_id = user}}

\* a filter that also drops the profiles of private accounts
KeepProfile_HidePrivate(user, candidate) ==
    /\ candidate \notin MatchedUserIds(user)
    /\ candidate \notin BlockedUserIds(user)
    /\ candidate \notin BlockedByUserIds(user)
    /\ ~users[candidate].user_priset_is_private

\* .filter(profile => !matched.has(..) && !blocked.has(..) && !blockedBy.has(..))
KeepProfile(user, candidate) ==
    /\ candidate \notin MatchedUserIds(user)
    /\ candidate \notin BlockedUserIds(user)
    /\ candidate \notin BlockedByUserIds(user)

\* the flattened candidate record
Candidate(user, c) ==
    [user_id |-> c,
     profile_username |-> profiles[c].profile_username,
     profile_bio |-> profiles[c].profile_bio,
     profile_birthdate |-> profiles[c].profile_birthdate,
     profile_academic_interests |-> profiles[c].profile_academic_interests,
     profile_non_academic_interests |-> profiles[c].profile_non_academic_interests,
     user_priset_show_age |-> users[c].user_priset_show_age,
     user_priset_show_bio |-> users[c].user_priset_show_bio,
     user_priset_is_private |-> users[c].user_priset_is_private,
     compatibility_score |-> CompatibilityScore(profiles[user], profiles[c])]

\* a ranker that returns only the candidates sharing an interest
SuggestedProfiles_SharedOnly(user, fetched) ==
    LET kept == SelectSeq(fetched, LAMBDA c : KeepProfile(user, c))
        all == SortByScore([i \in 1..Len(kept) |-> Candidate(user, kept[i])])
    IN  SelectSeq(all, LAMBDA sug : sug.compatibility_score > 0)

\* a ranker whose candidate query is cut off after its first row
SuggestedProfiles_Limited(user, fetched) ==
    LET first == SubSeq(fetched, 1, IF Len(fetched) > 1 THEN 1 ELSE Len(fetched))
        kept == SelectSeq(first, LAMBDA c : KeepProfile(user, c))
    IN  SortByScore([i \in 1..Len(kept) |-> Candidate(user, kept[i])])

\* allProfiles.filter(...).map(...).sort(...)
SuggestedProfiles(user, fetched) ==
    LET kept == SelectSeq(fetched, LAMBDA c : KeepProfile(user, c))
    IN  SortByScore([i \in 1..Len(kept) |-> Candidate(user, kept[i])])

Response(st, hasSuggestions, sugg, message, error) ==
    [status |-> st, has_suggestions |-> hasSuggestions, suggestions |-> sugg,
     message |-> message, error |-> error]

\* the catch block: every thrown error becomes { error: message } with this status
CatchStatus == 400

ErrorResponse(message) == Response(CatchStatus, FALSE, <<>>, "", message)

AdvisoryMessage == "Please complete your profile setup first"

\* a handler that throws when the requester has no profile row
GetMatchSuggestions_MissingProfileThrown(user, authenticated, readError, fetched) ==
    IF ~authenticated THEN ErrorResponse("User not authenticated")
    ELSE IF readError \in {"users", "createUser", "profile"} \/ user \notin DOMAIN profiles
        THEN ErrorResponse("Current user profile not found")
    ELSE IF readError # "none" THEN ErrorResponse("Failed to fetch")
    ELSE Response(200, TRUE, SuggestedProfiles(user, fetched), "", "")

\* the handler body, given the outcome of auth.getUser() and of the backend reads
GetMatchSuggestions(user, authenticated, readError, fetched) ==
    IF ~authenticated THEN ErrorResponse("User not authenticated")
    ELSE IF readError = "users" THEN ErrorResponse("Failed to check user record")
    ELSE IF user \notin DOMAIN users /\ readError = "createUser"
        THEN ErrorResponse("Failed to create user record")
    ELSE IF readError = "profile" THEN ErrorResponse("Current user profile not found")
    ELSE IF user \notin DOMAIN profiles
        THEN Response(200, TRUE, <<>>, AdvisoryMessage, "")
    ELSE IF readError = "profiles" THEN ErrorResponse("Failed to fetch profiles")
    ELSE IF readError = "matches" THEN ErrorResponse("Failed to fetch existing matches")
    ELSE IF readError = "blocked" THEN ErrorResponse("Failed to fetch blocked users")
    ELSE IF readError = "blockedBy"
        THEN ErrorResponse("Failed to fetch users who blocked current user")
    ELSE Response(200, TRUE, SuggestedProfiles(user, fetched), "", "")

\* the awaited queries of the handler, in the order the code issues them
ReadSequence == <<"users", "profile", "profiles", "matches", "blocked", "blockedBy">>

\* the last query the handler issues before it returns
LastRead(user, authenticated, readError) ==
    IF readError = "users" THEN "users"
    ELSE IF user \notin DOMAIN users /\ readError = "createUser" THEN "users"
    ELSE IF readError = "profile" \/ user \notin DOMAIN profiles THEN "profile"
    ELSE IF readError = "none" THEN "blockedBy"
    ELSE readError

\* the queries one invocation issues, in order: none without a user, then
\* every query up to the one that makes the handler return
ReadsIssued(user, authenticated, readError) ==
    IF ~authenticated
    THEN <<>>
    ELSE LET last == CHOOSE i \in 1..Len(ReadSequence) :
                        ReadSequence[i] = LastRead(user, authenticated, readError)
         IN  SubSeq(ReadSequence, 1, last)

\* lines 56-83: a missing users row of the caller is created before anything is read
UsersAfterCheck(user, authenticated, readError) ==
    IF authenticated /\ user \notin DOMAIN users /\ readError \notin {"users", "createUser"}
    THEN (user :> UserRow(FALSE)) @@ users
    ELSE users

-----------------------------------------------------------------------------
(* Constraints of the schema (part_006: matches, blocked_users) *)

\* UNIQUE(match_user1_id, match_user2_id)
MatchesUnique(rows) ==
    \A r1, r2 \in rows :
        (r1.match_user1_id = r2.match_user1_id /\ r1.match_user2_id = r2.match_user2_id)
            => r1 = r2

\* CONSTRAINT matches_no_self_match CHECK (match_user1_id != match_user2_id)
MatchesNoSelfMatch(rows) == \A r \in rows : r.match_user1_id # r.match_user2_id

\* REFERENCES users(user_id) on both endpoints
MatchesReferenceUsers(rows, userRows) ==
    \A r \in rows : r.match_user1_id \in DOMAIN userRows /\ r.match_user2_id \in DOMAIN userRows

MatchesConstraints(rows, userRows) ==
    /\ MatchesUnique(rows)
    /\ MatchesNoSelfMatch(rows)
    /\ MatchesReferenceUsers(rows, userRows)

\* PRIMARY KEY (blocker_id, blocked_id) is what makes the table a set of pairs;
\* CONSTRAINT blocked_users_no_self_block; REFERENCES users(user_id)
BlockedConstraints(rows, userRows) ==
    \A r \in rows :
        /\ r.blocker_id # r.blocked_id
        /\ r.blocker_id \in DOMAIN userRows
        /\ r.blocked_id \in DOMAIN userRows

StatusesOf(sch) == IF sch = "status" THEN Statuses ELSE {NoStatus}

-----------------------------------------------------------------------------
(* Dashboard.fetchSuggestions: invoke get-match-suggestions, keep the list *)

NoResponse == [none |-> TRUE]

NoToast == [user |-> "-", title |-> "none"]

Toast(user, title) == [user |-> user, title |-> title]

\* the last handler call: none yet, or which handler, by whom, on whom
NoWrite == [op |-> "none", user |-> "-", target |-> "-"]

Write(op, user, target) == [op |-> op, user |-> user, target |-> target]

\* the candidate fetch (lines 112-128) is reached and succeeds
ProfilesFetched(user, authenticated, readError) ==
    /\ authenticated
    /\ readError \notin {"users", "createUser", "profile", "profiles"}
    /\ user \in DOMAIN profiles

\* fetched lists every row of S once
IsOrderOf(fetched, S) == Len(fetched) = Cardinality(S) /\ Range(fetched) = S

\* the request and the response of one invocation; fetched is allProfiles, in
\* the order the query returned it
Invocation(user, authenticated, readError, fetched) ==
    [requester |-> user, authenticated |-> authenticated, readError |-> readError,
     fetched |-> fetched,
     reads |-> ReadsIssued(user, authenticated, readError),
     reply |-> GetMatchSuggestions(user, authenticated, readError, fetched)]

\* one invocation of the edge function
Invoke(user, authenticated, readError, fetched) ==
    /\ authenticated \/ readError = "none"
    /\ readError = "createUser" => user \notin DOMAIN users
    /\ IF ProfilesFetched(user, authenticated, readError)
       THEN IsOrderOf(fetched, AllProfilesOf(user))
       ELSE fetched = <<>>
    /\ response' = Invocation(user, authenticated, readError, fetched)
    /\ users' = UsersAfterCheck(user, authenticated, readError)

InvokeOnly(user, authenticated, readError, fetched) ==
    /\ Invoke(user, authenticated, readError, fetched)
    /\ UNCHANGED <<schema, profiles, matches, blocked_users, notifications,
                   suggestions, toast, steps, lastWrite>>
    /\ UNCHANGED pages

\* fetchSuggestions: the session token is sent, the list replaces the local one
FetchSuggestions(user, authenticated, readError, fetched) ==
    /\ Invoke(user, authenticated, readError, fetched)
    /\ IF response'.reply.status = 200
       THEN /\ suggestions' = [suggestions EXCEPT ![user] = response'.reply.suggestions]
            /\ toast' = toast
       ELSE /\ suggestions' = suggestions
            /\ toast' = Toast(user, "Error")
    /\ UNCHANGED <<schema, profiles, matches, blocked_users, notifications, steps,
                   lastWrite>>

\* every order in which some of the users can be returned
FetchOrders == UNION {Orders(S) : S \in SUBSET Users}

-----------------------------------------------------------------------------
(* SpecRank: the ranker applied to every store within the bounds *)

TextUpperSpace == <<"A", ",", " ", "b">>    \* "A, b"
TextRepeated   == <<"a", ",", "a">>         \* "a,a"
TextTrailing   == <<"b", ",">>              \* "b,"
TextLeadingComma == <<",", " ", "B">>       \* ", B"

\* the interest texts a profile is drawn from: (academic, non-academic)
ProfileChoices ==
    {ProfileRow(TextUpperSpace, Null),
     ProfileRow(TextRepeated, TextTrailing),
     ProfileRow(Null, TextLeadingComma)}

InitialUsers(S) == [u \in S |-> UserRow(u \in InitiallyPrivate)]

\* "null": no target (actionLoading) and no value
NoTarget == "null"

\* FriendList before it is mounted: useState([]), useState(new Set())
NotMounted == [mounted |-> FALSE, friends |-> {}, blockedUsers |-> {}]

\* SettingsPage before the flags are fetched: useState(false), useState(true), useState(true)
DefaultFlags == [isPrivate |-> FALSE, showAge |-> TRUE, showBio |-> TRUE]

\* no view but the Dashboard has done anything yet
PagesInit ==
    /\ friendList = [u \in Users |-> NotMounted]
    /\ events = {}
    /\ actionLoading = [u \in Users |-> NoTarget]
    /\ inflight = [u \in Users |-> <<>>]
    /\ settingsPage = [u \in Users |-> DefaultFlags]
    /\ editor = [u \in Users |-> [saving |-> FALSE, uploads |-> 0]]

AllMatchRows(sch) ==
    {MatchRow(u1, u2, st) : u1 \in Users, u2 \in Users, st \in StatusesOf(sch)}

AllBlockRows == {BlockRow(u1, u2) : u1 \in Users, u2 \in Users}

\* the subsets of S with at most n elements
RECURSIVE UpTo(_, _)
UpTo(S, n) ==
    IF n = 0
    THEN {{}}
    ELSE LET smaller == UpTo(S, n - 1)
         IN  smaller \cup {T \cup {x} : T \in smaller, x \in S}

InitRank ==
    /\ schema \in {"status", "split"}
    /\ \E S \in SUBSET Users : users = InitialUsers(S)
    \* profiles.user_id references users(user_id)
    /\ \E S \in SUBSET DOMAIN users : profiles \in [S -> ProfileChoices]
    /\ \E rows \in UpTo(AllMatchRows(schema) \cup AllBlockRows, MaxRows) :
          /\ matches = rows \cap AllMatchRows(schema)
          /\ blocked_users = rows \cap AllBlockRows
    /\ MatchesConstraints(matches, users)
    /\ BlockedConstraints(blocked_users, users)
    /\ notifications = {}
    /\ suggestions = [u \in Users |-> <<>>]
    /\ toast = NoToast
    /\ response = NoResponse
    /\ steps = 0
    /\ lastWrite = NoWrite
    /\ PagesInit

\* one invocation on each store
NextRank ==
    /\ response = NoResponse
    /\ \E user \in Users, authenticated \in BOOLEAN, readError \in ReadErrors,
          fetched \in FetchOrders :
           InvokeOnly(user, authenticated, readError, fetched)

SpecRank == InitRank /\ [][NextRank]_vars

-----------------------------------------------------------------------------
(* Writes to the relationship store *)

\* RLS "Users can create matches when accepting requests" (part_006)
MatchInsertAllowed(actor, row) ==
    actor = row.match_user1_id \/ actor = row.match_user2_id

\* the insert of one matches row succeeds
CanInsertMatch(actor, row, backendOk) ==
    /\ backendOk
    /\ MatchInsertAllowed(actor, row)
    /\ MatchesConstraints(matches \cup {row}, users)
    /\ \A r \in matches :
          ~(r.match_user1_id = row.match_user1_id /\ r.match_user2_id = row.match_user2_id)

\* the insert of one blocked_users row succeeds (primary key, no self block, RLS)
CanInsertBlock(actor, row, backendOk) ==
    /\ backendOk
    /\ actor = row.blocker_id
    /\ row \notin blocked_users
    /\ BlockedConstraints(blocked_users \cup {row}, users)

FreeIds == (1..MaxNotifications) \ {n.id : n \in notifications}

NewId == CHOOSE id \in FreeIds : \A other \in FreeIds : id <= other

\* the insert of one notifications row succeeds (RLS: auth.uid() = from_user_id)
CanInsertNotification(actor, from, backendOk) ==
    /\ backendOk
    /\ actor = from
    /\ FreeIds # {}

\* one handler ran: it is counted, and the last response is no longer the latest
\* view of the store
Handled(op, user, target) ==
    /\ steps < MaxSteps
    /\ steps' = steps + 1
    /\ response' = NoResponse
    /\ lastWrite' = Write(op, user, target)

\* setSuggestions(prev => prev.filter(suggestion => suggestion.user_id !== target))
WithoutTarget(list, target) == SelectSeq(list, LAMBDA sug : sug.user_id # target)

\* Dashboard.tsx handleConnect(targetUserId, isPrivate) (status schema)
ConnectTo(user, target, isPrivate, matchOk, notifOk) ==
    LET row == MatchRow(user, target, IF isPrivate THEN "accepted" ELSE "pending")
        type == IF isPrivate THEN "match_accepted" ELSE "match_request"
    IN  /\ schema = "status"
        /\ Handled("connect", user, target)
        /\ IF CanInsertMatch(user, row, matchOk)
           THEN /\ matches' = matches \cup {row}
                /\ notifications' =
                      IF CanInsertNotification(user, user, notifOk)
                      THEN notifications \cup {NotificationRow(NewId, target, user, type)}
                      ELSE notifications
                /\ toast' = Toast(user, IF isPrivate THEN "Matched!" ELSE "Request Sent!")
                /\ suggestions' =
                      [suggestions EXCEPT ![user] = WithoutTarget(@, target)]
           ELSE /\ toast' = Toast(user, "Error")
                /\ UNCHANGED <<matches, notifications, suggestions>>
        /\ UNCHANGED <<schema, users, profiles, blocked_users>>

\* the Connect button of the i-th suggestion, answered at once
HandleConnect(user, i, matchOk, notifOk) ==
    /\ i \in 1..Len(suggestions[user])
    /\ ConnectTo(user, suggestions[user][i].user_id,
                 suggestions[user][i].user_priset_is_private, matchOk, notifOk)

\* part_003 Dashboard.handleConnect(targetUserId) (split schema): the request
\* is a notification
RequestTo(user, target, backendOk) ==
    /\ schema = "split"
    /\ Handled("connect", user, target)
    /\ IF CanInsertNotification(user, user, backendOk)
       THEN /\ notifications' =
                  notifications \cup {NotificationRow(NewId, target, user, "match_request")}
            /\ toast' = Toast(user, "Request Sent!")
            /\ suggestions' =
                  [suggestions EXCEPT ![user] = WithoutTarget(@, target)]
       ELSE /\ toast' = Toast(user, "Error")
            /\ UNCHANGED <<notifications, suggestions>>
    /\ UNCHANGED <<schema, users, profiles, matches, blocked_users>>

HandleConnectRequest(user, i, backendOk) ==
    /\ i \in 1..Len(suggestions[user])
    /\ RequestTo(user, suggestions[user][i].user_id, backendOk)

\* part_003 second Dashboard.handleConnect (direct): the matches row is inserted
HandleConnectDirect(user, i, backendOk) ==
    LET target == suggestions[user][i].user_id
        row == MatchRow(user, target, NoStatus)
    IN  /\ schema = "direct"
        /\ i \in 1..Len(suggestions[user])
        /\ Handled("connect", user, target)
        /\ IF CanInsertMatch(user, row, backendOk)
           THEN /\ matches' = matches \cup {row}
                /\ toast' = Toast(user, "Connected!")
                /\ suggestions' =
                      [suggestions EXCEPT ![user] = WithoutTarget(@, target)]
           ELSE /\ toast' = Toast(user, "Error")
                /\ UNCHANGED <<matches, suggestions>>
        /\ UNCHANGED <<schema, users, profiles, blocked_users, notifications>>

\* a handleBlock whose failure is not reported: the target leaves the list
BlockTarget_Unreported(user, target, backendOk) ==
    LET row == BlockRow(user, target)
    IN  /\ Handled("block", user, target)
        /\ blocked_users' = IF CanInsertBlock(user, row, backendOk)
                            THEN blocked_users \cup {row}
                            ELSE blocked_users
        /\ toast' = Toast(user, "User blocked")
        /\ suggestions' = [suggestions EXCEPT ![user] = WithoutTarget(@, target)]
        /\ UNCHANGED <<schema, users, profiles, matches, notifications>>

\* Dashboard handleBlock(targetUserId)
BlockTarget(user, target, backendOk) ==
    LET row == BlockRow(user, target)
    IN  /\ Handled("block", user, target)
        /\ IF CanInsertBlock(user, row, backendOk)
           THEN /\ blocked_users' = blocked_users \cup {row}
                /\ toast' = Toast(user, "User blocked")
                /\ suggestions' =
                      [suggestions EXCEPT ![user] = WithoutTarget(@, target)]
           ELSE /\ toast' = Toast(user, "Error")
                /\ UNCHANGED <<blocked_users, suggestions>>
        /\ UNCHANGED <<schema, users, profiles, matches, notifications>>

\* the Block button of the i-th suggestion, answered at once
HandleBlock(user, i, backendOk) ==
    /\ i \in 1..Len(suggestions[user])
    /\ BlockTarget(user, suggestions[user][i].user_id, backendOk)

\* an unblock whose delete matches no row (the two ids swapped in the filter)
HandleUnblock_RowKept(user, target, backendOk) ==
    /\ BlockRow(user, target) \in blocked_users
    /\ Handled("unblock", user, target)
    /\ IF backendOk
       THEN /\ blocked_users' = blocked_users \ {BlockRow(target, user)}
            /\ toast' = Toast(user, "User unblocked")
       ELSE /\ toast' = Toast(user, "Error")
            /\ UNCHANGED blocked_users
    /\ UNCHANGED <<schema, users, profiles, matches, notifications, suggestions>>

\* BlockedUsersPage.handleUnblock: user unblocks a user of the blocked list
HandleUnblock(user, target, backendOk) ==
    /\ BlockRow(user, target) \in blocked_users
    /\ Handled("unblock", user, target)
    /\ IF backendOk
       THEN /\ blocked_users' = blocked_users \ {BlockRow(user, target)}
            /\ toast' = Toast(user, "User unblocked")
       ELSE /\ toast' = Toast(user, "Error")
            /\ UNCHANGED blocked_users
    /\ UNCHANGED <<schema, users, profiles, matches, notifications, suggestions>>

\* the unread match_request notifications fetchNotifications shows to user
MatchRequestsOf(user) ==
    {n \in notifications : n.user_id = user /\ n.type = "match_request" /\ ~n.read}

\* Notifications.tsx handleAcceptRequest (split schema)
HandleAcceptRequest(user, n, matchOk, deleteOk) ==
    LET row == MatchRow(n.from_user_id, user, NoStatus)
    IN  /\ schema = "split"
        /\ n \in MatchRequestsOf(user)
        /\ Handled("accept", user, n.from_user_id)
        /\ IF CanInsertMatch(user, row, matchOk)
           THEN /\ matches' = matches \cup {row}
                /\ IF deleteOk
                   THEN /\ notifications' = notifications \ {n}
                        /\ toast' = Toast(user, "Request Accepted!")
                   ELSE /\ notifications' = notifications
                        /\ toast' = Toast(user, "Error")
           ELSE /\ toast' = Toast(user, "Error")
                /\ UNCHANGED <<matches, notifications>>
        /\ UNCHANGED <<schema, users, profiles, blocked_users, suggestions>>

\* Notifications.tsx handleRejectRequest (split schema)
HandleRejectRequest(user, n, backendOk) ==
    /\ schema = "split"
    /\ n \in MatchRequestsOf(user)
    /\ Handled("reject", user, n.from_user_id)
    /\ IF backendOk
       THEN /\ notifications' = notifications \ {n}
            /\ toast' = Toast(user, "Request Rejected")
       ELSE /\ toast' = Toast(user, "Error")
            /\ UNCHANGED notifications
    /\ UNCHANGED <<schema, users, profiles, matches, blocked_users, suggestions>>

\* part_001 fetchNotifications: the match_id of the pending row behind a request
PendingRowOf(user, n) == MatchRow(n.from_user_id, user, "pending")

\* part_001 Notifications.handleAcceptMatch (status schema)
HandleAcceptMatch(user, n, matchOk, notifOk, newNotifOk) ==
    LET old == PendingRowOf(user, n)
        new == MatchRow(n.from_user_id, user, "accepted")
        read == [n EXCEPT !.read = TRUE]
    IN  /\ schema = "status"
        /\ n \in MatchRequestsOf(user)
        /\ old \in matches
        /\ Handled("accept", user, n.from_user_id)
        /\ IF ~matchOk
           THEN /\ toast' = Toast(user, "Error")
                /\ UNCHANGED <<matches, notifications>>
           ELSE /\ matches' = (matches \ {old}) \cup {new}
                /\ IF ~notifOk
                   THEN /\ toast' = Toast(user, "Error")
                        /\ notifications' = notifications
                   ELSE /\ toast' = Toast(user, "Match Accepted!")
                        /\ LET marked == (notifications \ {n}) \cup {read}
                               free == (1..MaxNotifications) \ {m.id : m \in marked}
                           IN  notifications' =
                                  IF newNotifOk /\ free # {}
                                  THEN marked \cup
                                       {NotificationRow(
                                           CHOOSE id \in free : \A o \in free : id <= o,
                                           n.from_user_id, user, "match_accepted")}
                                  ELSE marked
        /\ UNCHANGED <<schema, users, profiles, blocked_users, suggestions>>

\* part_001 Notifications.handleRejectMatch (status schema)
HandleRejectMatch(user, n, matchOk, notifOk) ==
    LET old == PendingRowOf(user, n)
        new == MatchRow(n.from_user_id, user, "rejected")
        read == [n EXCEPT !.read = TRUE]
    IN  /\ schema = "status"
        /\ n \in MatchRequestsOf(user)
        /\ old \in matches
        /\ Handled("reject", user, n.from_user_id)
        /\ IF ~matchOk
           THEN /\ toast' = Toast(user, "Error")
                /\ UNCHANGED <<matches, notifications>>
           ELSE /\ matches' = (matches \ {old}) \cup {new}
                /\ IF ~notifOk
                   THEN /\ toast' = Toast(user, "Error")
                        /\ notifications' = notifications
                   ELSE /\ toast' = Toast(user, "Match Rejected")
                        /\ notifications' = (notifications \ {n}) \cup {read}
        /\ UNCHANGED <<schema, users, profiles, blocked_users, suggestions>>

\* FriendList.fetchFriends: .eq('status', 'accepted').or(user is an endpoint)
FriendRowsOf(user) ==
    {r \in matches :
        r.status = "accepted" /\ (r.match_user1_id = user \/ r.match_user2_id = user)}

\* FriendList.handleUnfriend: delete the matches row of a listed friend
HandleUnfriend(user, row, backendOk) ==
    /\ row \in FriendRowsOf(user)
    /\ Handled("unfriend", user,
               IF row.match_user1_id = user THEN row.match_user2_id
                                            ELSE row.match_user1_id)
    /\ IF backendOk
       THEN /\ matches' = matches \ {row}
            /\ toast' = Toast(user, "Unfriended")
       ELSE /\ toast' = Toast(user, "Error")
            /\ UNCHANGED matches
    /\ UNCHANGED <<schema, users, profiles, blocked_users, notifications, suggestions>>

-----------------------------------------------------------------------------
(* Spec: the relationship store under the handlers of the view layer *)

\* the profiles the three users have saved
SavedProfiles ==
    [u \in Users |->
        CASE u = "u1" -> ProfileRow(TextUpperSpace, Null)
          [] u = "u2" -> ProfileRow(TextRepeated, TextTrailing)
          [] OTHER    -> ProfileRow(Null, TextLeadingComma)]

Init ==
    /\ schema \in {"status", "split", "direct"}
    /\ users = InitialUsers(Users)
    /\ profiles = SavedProfiles
    /\ matches = {}
    /\ blocked_users = {}
    /\ notifications = {}
    /\ suggestions = [u \in Users |-> <<>>]
    /\ toast = NoToast
    /\ response = NoResponse
    /\ steps = 0
    /\ lastWrite = NoWrite
    /\ PagesInit

\* a signed-in user opens the Dashboard
LoadDashboard ==
    \E user \in Users :
        \E fetched \in Orders(AllProfilesOf(user)) :
            FetchSuggestions(user, TRUE, "none", fetched) /\ UNCHANGED pages

Connect ==
    \E user \in Users, i \in 1..Cardinality(Users), matchOk, notifOk \in BOOLEAN :
        HandleConnect(user, i, matchOk, notifOk) /\ UNCHANGED pages

ConnectRequest ==
    \E user \in Users, i \in 1..Cardinality(Users), backendOk \in BOOLEAN :
        HandleConnectRequest(user, i, backendOk) /\ UNCHANGED pages

ConnectDirect ==
    \E user \in Users, i \in 1..Cardinality(Users), backendOk \in BOOLEAN :
        HandleConnectDirect(user, i, backendOk) /\ UNCHANGED pages

Block ==
    \E user \in Users, i \in 1..Cardinality(Users), backendOk \in BOOLEAN :
        HandleBlock(user, i, backendOk) /\ UNCHANGED pages

Unblock ==
    \E user \in Users, target \in Users, backendOk \in BOOLEAN :
        HandleUnblock(user, target, backendOk) /\ UNCHANGED pages

AcceptRequest ==
    \E user \in Users, n \in notifications, matchOk, deleteOk \in BOOLEAN :
        HandleAcceptRequest(user, n, matchOk, deleteOk) /\ UNCHANGED pages

RejectRequest ==
    \E user \in Users, n \in notifications, backendOk \in BOOLEAN :
        HandleRejectRequest(user, n, backendOk) /\ UNCHANGED pages

AcceptMatch ==
    \E user \in Users, n \in notifications, matchOk, notifOk, newNotifOk \in BOOLEAN :
        HandleAcceptMatch(user, n, matchOk, notifOk, newNotifOk) /\ UNCHANGED pages

RejectMatch ==
    \E user \in Users, n \in notifications, matchOk, notifOk \in BOOLEAN :
        HandleRejectMatch(user, n, matchOk, notifOk) /\ UNCHANGED pages

Unfriend ==
    \E user \in Users, row \in matches, backendOk \in BOOLEAN :
        HandleUnfriend(user, row, backendOk) /\ UNCHANGED pages

Next ==
    \/ LoadDashboard
    \/ Connect
    \/ ConnectRequest
    \/ ConnectDirect
    \/ Block
    \/ Unblock
    \/ AcceptRequest
    \/ RejectRequest
    \/ AcceptMatch
    \/ RejectMatch
    \/ Unfriend

Spec == Init /\ [][Next]_vars

-----------------------------------------------------------------------------
(* FriendList: the friends of a user, kept up to date by a realtime channel *)

\* the endpoint of a matches row that is not user
OtherEnd(user, row) ==
    IF row.match_user1_id = user THEN row.match_user2_id ELSE row.match_user1_id

\* a Friend of the list: the row (match_id) and the friend's user_id
FriendEntry(user, row) == [match |-> row, user_id |-> OtherEnd(user, row)]

FriendIds(user) == {f.user_id : f \in friendList[user].friends}

\* fetchFriends: the accepted rows of user; the query names the status column,
\* which the split schema has dropped, and any failure keeps the old list
FetchedFriends(user, backendOk) ==
    IF backendOk /\ schema = "status"
    THEN {FriendEntry(user, r) : r \in FriendRowsOf(user)}
    ELSE friendList[user].friends

FetchFriendsToast(user, backendOk) ==
    IF backendOk /\ schema = "status" THEN toast ELSE Toast(user, "Error")

\* fetchBlockedUsers: a failure is only logged
FetchedBlockedUsers(user, backendOk) ==
    IF backendOk THEN BlockedUserIds(user) ELSE friendList[user].blockedUsers

\* the payload the channel hands to the callback of user; a status that is
\* undefined in the payload is NoStatus
Payload(user, eventType, oldStatus, row) ==
    [to |-> user, eventType |-> eventType,
     match_user1_id |-> row.match_user1_id, match_user2_id |-> row.match_user2_id,
     old_status |-> oldStatus,
     new_status |-> IF eventType = "DELETE" THEN NoStatus ELSE row.status]

SamePair(r, q) ==
    r.match_user1_id = q.match_user1_id /\ r.match_user2_id = q.match_user2_id

\* filter: or(match_user1_id=eq.user, match_user2_id=eq.user), for mounted lists
Subscribers(row) ==
    {u \in {row.match_user1_id, row.match_user2_id} : friendList[u].mounted}

\* the payloads a change of the matches table sends to the subscribed lists
MatchEvents(before, after) ==
    LET inserted == {r \in after \ before : \A q \in before : ~SamePair(r, q)}
        deleted == {q \in before \ after : \A r \in after : ~SamePair(r, q)}
        updated == {p \in (before \ after) \X (after \ before) : SamePair(p[1], p[2])}
    IN  UNION ( {{Payload(u, "INSERT", NoStatus, r) : u \in Subscribers(r)} :
                    r \in inserted}
                \cup {{Payload(u, "UPDATE", p[1].status, p[2]) : u \in Subscribers(p[2])} :
                    p \in updated}
                \cup {{Payload(u, "DELETE", q.status, q) : u \in Subscribers(q)} :
                    q \in deleted} )

\* the condition under which the callback calls fetchFriends
RefetchWanted(e) ==
    \/ e.new_status = "accepted"
    \/ e.eventType = "DELETE"
    \/ (e.old_status = "accepted" /\ e.new_status # "accepted")

\* useEffect: fetchFriends(), fetchBlockedUsers(), subscribe
MountFriendList(user, friendsOk, blockedOk) ==
    /\ ~friendList[user].mounted
    /\ friendList' = [friendList EXCEPT ![user] =
                        [mounted |-> TRUE,
                         friends |-> FetchedFriends(user, friendsOk),
                         blockedUsers |-> FetchedBlockedUsers(user, blockedOk)]]
    /\ toast' = FetchFriendsToast(user, friendsOk)
    /\ UNCHANGED <<schema, users, profiles, matches, blocked_users, notifications,
                   suggestions, response, steps, lastWrite,
                   events, actionLoading, inflight, settingsPage, editor>>

\* the cleanup of useEffect: removeChannel; the state of the component is gone
UnmountFriendList(user) ==
    /\ friendList[user].mounted
    /\ friendList' = [friendList EXCEPT ![user] = NotMounted]
    /\ events' = {e \in events : e.to # user}
    /\ UNCHANGED <<schema, users, profiles, matches, blocked_users, notifications,
                   suggestions, toast, response, steps, lastWrite,
                   actionLoading, inflight, settingsPage, editor>>

\* the callback of the channel runs on one payload
RealtimeCallback(e, backendOk) ==
    /\ e \in events
    /\ events' = events \ {e}
    /\ IF RefetchWanted(e)
       THEN /\ friendList' = [friendList EXCEPT
                                 ![e.to].friends = FetchedFriends(e.to, backendOk)]
            /\ toast' = FetchFriendsToast(e.to, backendOk)
       ELSE UNCHANGED <<friendList, toast>>
    /\ UNCHANGED <<schema, users, profiles, matches, blocked_users, notifications,
                   suggestions, response, steps, lastWrite,
                   actionLoading, inflight, settingsPage, editor>>

\* FriendList.handleBlock: the block dialog of a listed friend
HandleBlockFriend(user, friend, backendOk) ==
    LET row == BlockRow(user, friend.user_id)
    IN  /\ friend \in friendList[user].friends
        /\ friend.user_id \notin friendList[user].blockedUsers
        /\ Handled("block", user, friend.user_id)
        /\ IF CanInsertBlock(user, row, backendOk)
           THEN /\ blocked_users' = blocked_users \cup {row}
                /\ toast' = Toast(user, "User blocked")
                /\ friendList' = [friendList EXCEPT
                      ![user].blockedUsers = @ \cup {friend.user_id},
                      ![user].friends = {f \in @ : f.user_id # friend.user_id}]
           ELSE /\ toast' = Toast(user, "Error")
                /\ UNCHANGED <<blocked_users, friendList>>
        /\ UNCHANGED <<schema, users, profiles, matches, notifications, suggestions,
                       events, actionLoading, inflight, settingsPage, editor>>

\* FriendList.handleUnblock: the block dialog of a listed friend who is blocked
HandleUnblockFriend(user, friend, backendOk) ==
    /\ friend \in friendList[user].friends
    /\ friend.user_id \in friendList[user].blockedUsers
    /\ Handled("unblock", user, friend.user_id)
    /\ IF backendOk
       THEN /\ blocked_users' = blocked_users \ {BlockRow(user, friend.user_id)}
            /\ toast' = Toast(user, "User unblocked")
            /\ friendList' = [friendList EXCEPT
                                 ![user].blockedUsers = @ \ {friend.user_id}]
       ELSE /\ toast' = Toast(user, "Error")
            /\ UNCHANGED <<blocked_users, friendList>>
    /\ UNCHANGED <<schema, users, profiles, matches, notifications, suggestions,
                   events, actionLoading, inflight, settingsPage, editor>>

\* FriendList.handleUnfriend on a listed friend: the row goes, and the entry
\* with its match_id leaves the list
HandleUnfriendFriend(user, friend, backendOk) ==
    /\ friend \in friendList[user].friends
    /\ HandleUnfriend(user, friend.match, backendOk)
    /\ friendList' =
          IF backendOk
          THEN [friendList EXCEPT ![user].friends = {f \in @ : f.match # friend.match}]
          ELSE friendList
    /\ events' = events \cup MatchEvents(matches, matches')
    /\ UNCHANGED <<actionLoading, inflight, settingsPage, editor>>

-----------------------------------------------------------------------------
(* SpecFriends: friend lists over a store that holds a friendship and a request *)

\* the store after u1 connected to u3 (friends) and sent a request to u2: in the
\* status schema u3 is private, so the connect stored an accepted row at once;
\* in the split schema u3 has accepted the request of u1
InitFriends ==
    /\ schema \in {"status", "split"}
    /\ users = InitialUsers(Users)
    /\ profiles = SavedProfiles
    /\ matches = IF schema = "status"
                 THEN {MatchRow("u1", "u3", "accepted"), MatchRow("u1", "u2", "pending")}
                 ELSE {MatchRow("u1", "u3", NoStatus)}
    /\ blocked_users = {}
    /\ notifications = {NotificationRow(1, "u2", "u1", "match_request")}
    /\ suggestions = [u \in Users |-> <<>>]
    /\ toast = NoToast
    /\ response = NoResponse
    /\ steps = 0
    /\ lastWrite = NoWrite
    /\ PagesInit

Realtime == \E e \in events, backendOk \in BOOLEAN : RealtimeCallback(e, backendOk)

\* the other party answers a request in its Notifications page
AnswerRequest ==
    /\ \E user \in Users, n \in notifications, ok1, ok2, ok3 \in BOOLEAN :
          \/ HandleAcceptRequest(user, n, ok1, ok2)
          \/ HandleAcceptMatch(user, n, ok1, ok2, ok3)
          \/ HandleRejectRequest(user, n, ok1)
          \/ HandleRejectMatch(user, n, ok1, ok2)
    /\ events' = events \cup MatchEvents(matches, matches')
    /\ UNCHANGED <<friendList, actionLoading, inflight, settingsPage, editor>>

NextFriends ==
    \/ \E user \in Users, friendsOk, blockedOk \in BOOLEAN :
          MountFriendList(user, friendsOk, blockedOk)
    \/ \E user \in Users : UnmountFriendList(user)
    \/ Realtime
    \/ \E user \in Users, backendOk \in BOOLEAN :
          \E friend \in friendList[user].friends :
             \/ HandleBlockFriend(user, friend, backendOk)
             \/ HandleUnblockFriend(user, friend, backendOk)
             \/ HandleUnfriendFriend(user, friend, backendOk)
    \/ AnswerRequest

SpecFriends == InitFriends /\ [][NextFriends]_vars

\* a payload handed to the channel reaches the callback of a subscribed list
SpecFriendsLive == SpecFriends /\ WF_vars(Realtime)

-----------------------------------------------------------------------------
(* SettingsPage: the privacy flags; ProfileEditor: the profile of the user *)

\* the users column behind each switch, and the state that displays it
PrivacyKeys == {"user_priset_is_private", "user_priset_show_age", "user_priset_show_bio"}

DisplayOf(key) ==
    CASE key = "user_priset_is_private" -> "isPrivate"
      [] key = "user_priset_show_age" -> "showAge"
      [] OTHER -> "showBio"

\* fetchPrivacySettings: the three flags of the own row are displayed
FetchPrivacySettings(user, backendOk) ==
    /\ IF backendOk /\ user \in DOMAIN users
       THEN /\ settingsPage' = [settingsPage EXCEPT ![user] =
                   [isPrivate |-> users[user].user_priset_is_private,
                    showAge |-> users[user].user_priset_show_age,
                    showBio |-> users[user].user_priset_show_bio]]
            /\ toast' = toast
       ELSE /\ settingsPage' = settingsPage
            /\ toast' = Toast(user, "Error")
    /\ UNCHANGED <<schema, users, profiles, matches, blocked_users, notifications,
                   suggestions, response, steps, lastWrite,
                   friendList, events, actionLoading, inflight, editor>>

\* a toggle whose catch block does not revert the switch
HandleToggle_NoRollback(user, key, backendOk) ==
    LET checked == ~settingsPage[user][DisplayOf(key)]
    IN  /\ Handled("toggle", user, key)
        /\ settingsPage' = [settingsPage EXCEPT ![user][DisplayOf(key)] = checked]
        /\ IF backendOk
           THEN /\ users' = [users EXCEPT ![user][key] = checked]
                /\ toast' = Toast(user, "Success")
           ELSE /\ users' = users
                /\ toast' = Toast(user, "Error")
        /\ UNCHANGED <<schema, profiles, matches, blocked_users, notifications,
                       suggestions, friendList, events, actionLoading, inflight, editor>>

\* handleToggleHideAccount / ShowAge / ShowBio with updatePrivacySetting: the
\* switch hands over the negation of what it displays; the state is set at
\* once, the own users row is updated, and a failure sets the state to !value
HandleToggle(user, key, backendOk) ==
    LET checked == ~settingsPage[user][DisplayOf(key)]
        optimistic == [settingsPage EXCEPT ![user][DisplayOf(key)] = checked]
    IN  /\ Handled("toggle", user, key)
        /\ IF backendOk
           THEN /\ users' = [users EXCEPT ![user][key] = checked]
                /\ toast' = Toast(user, "Success")
                /\ settingsPage' = optimistic
           ELSE /\ users' = users
                /\ toast' = Toast(user, "Error")
                /\ settingsPage' = [optimistic EXCEPT ![user][DisplayOf(key)] = ~checked]
        /\ UNCHANGED <<schema, profiles, matches, blocked_users, notifications,
                       suggestions, friendList, events, actionLoading, inflight, editor>>

\* what the form shows for a stored text, and what trim() || null stores
FormText(stored) == IF stored = Null THEN <<>> ELSE stored

SavedText(text) == IF Trim(text) = <<>> THEN Null ELSE Trim(text)

\* the fields of formData the user can have typed: (username, birthdate, bio)
Forms ==
    [profile_username : {<<>>, <<" ">>, <<" ", "n">>},
     profile_birthdate : {<<" ">>, <<"1">>, <<"2">>},
     profile_bio : {<<>>, <<"b">>}]

\* !formData.profile_username.trim() || !formData.profile_birthdate.trim()
Blank(form) == Trim(form.profile_username) = <<>> \/ Trim(form.profile_birthdate) = <<>>

\* profileDataToSave, the other fields being those of the current profile
ProfileDataToSave(user, form) ==
    [profile_username |-> Trim(form.profile_username),
     profile_bio |-> SavedText(form.profile_bio),
     profile_birthdate |-> form.profile_birthdate,
     profile_academic_interests |->
        SavedText(FormText(profiles[user].profile_academic_interests)),
     profile_non_academic_interests |->
        SavedText(FormText(profiles[user].profile_non_academic_interests))]

\* a submit that saves whatever the form holds
HandleSubmit_NoValidation(user, form, avatarFile, backendOk) ==
    /\ user \in DOMAIN profiles
    /\ Handled("save", user, user)
    /\ editor' = [editor EXCEPT ![user] =
                     [saving |-> FALSE,
                      uploads |-> IF avatarFile THEN @.uploads + 1 ELSE @.uploads]]
    /\ IF backendOk
       THEN /\ profiles' = [profiles EXCEPT ![user] = ProfileDataToSave(user, form)]
            /\ toast' = Toast(user, "Success")
       ELSE /\ profiles' = profiles
            /\ toast' = Toast(user, "Error")
    /\ UNCHANGED <<schema, users, matches, blocked_users, notifications, suggestions,
                   friendList, events, actionLoading, inflight, settingsPage>>

\* ProfileEditor.handleSubmit: validation, upload of a chosen avatar, update of
\* the own profile; finally setSaving(false)
HandleSubmit(user, form, avatarFile, backendOk) ==
    /\ user \in DOMAIN profiles
    /\ Handled("save", user, user)
    /\ IF Blank(form)
       THEN /\ toast' = Toast(user, "Validation Error")
            /\ profiles' = profiles
            /\ editor' = [editor EXCEPT ![user].saving = FALSE]
       ELSE /\ editor' = [editor EXCEPT ![user] =
                             [saving |-> FALSE,
                              uploads |-> IF avatarFile THEN @.uploads + 1 ELSE @.uploads]]
            /\ IF backendOk
               THEN /\ profiles' = [profiles EXCEPT ![user] = ProfileDataToSave(user, form)]
                    /\ toast' = Toast(user, "Success")
               ELSE /\ profiles' = profiles
                    /\ toast' = Toast(user, "Error")
    /\ UNCHANGED <<schema, users, matches, blocked_users, notifications, suggestions,
                   friendList, events, actionLoading, inflight, settingsPage>>

-----------------------------------------------------------------------------
(* SpecAccount: every user changes privacy flags and profile *)

NextAccount ==
    \/ \E user \in Users, backendOk \in BOOLEAN : FetchPrivacySettings(user, backendOk)
    \/ \E user \in Users, key \in PrivacyKeys, backendOk \in BOOLEAN :
          HandleToggle(user, key, backendOk)
    \/ \E user \in Users, form \in Forms, avatarFile, backendOk \in BOOLEAN :
          HandleSubmit(user, form, avatarFile, backendOk)

SpecAccount == Init /\ [][NextAccount]_vars

-----------------------------------------------------------------------------
(* The Dashboard with its requests in flight: a handler sets actionLoading   *)
(* and sends its write, the answer arrives later and the handler finishes    *)

\* requests of one Dashboard that may be in flight together
MaxInflight == 3

\* a click on the Connect or the Block button of the i-th suggestion, enabled
\* unless actionLoading is the user_id of that suggestion: setActionLoading,
\* then the write is sent
StartAction(user, i, kind) ==
    /\ schema \in {"status", "split"}
    /\ i \in 1..Len(suggestions[user])
    /\ actionLoading[user] # suggestions[user][i].user_id
    /\ Len(inflight[user]) < MaxInflight
    /\ actionLoading' = [actionLoading EXCEPT ![user] = suggestions[user][i].user_id]
    /\ inflight' = [inflight EXCEPT ![user] =
                       Append(@, [kind |-> kind,
                                  target |-> suggestions[user][i].user_id,
                                  isPrivate |-> suggestions[user][i].user_priset_is_private])]
    /\ UNCHANGED <<schema, users, profiles, matches, blocked_users, notifications,
                   suggestions, toast, response, steps, lastWrite,
                   friendList, events, settingsPage, editor>>

\* the first write of the handler of req is refused
WriteRefused(user, req, backendOk) ==
    IF req.kind = "block"
    THEN ~CanInsertBlock(user, BlockRow(user, req.target), backendOk)
    ELSE IF schema = "split"
    THEN ~CanInsertNotification(user, user, backendOk)
    ELSE ~CanInsertMatch(user,
                         MatchRow(user, req.target,
                                  IF req.isPrivate THEN "accepted" ELSE "pending"),
                         backendOk)

\* the k-th request in flight is answered: the rest of the handler runs, and
\* finally setActionLoading(null)
FinishAction(user, k, backendOk, notifOk) ==
    /\ k \in 1..Len(inflight[user])
    /\ LET req == inflight[user][k]
       IN  IF req.kind = "block"
           THEN BlockTarget(user, req.target, backendOk)
           ELSE IF schema = "split"
           THEN RequestTo(user, req.target, backendOk)
           ELSE ConnectTo(user, req.target, req.isPrivate, backendOk, notifOk)
    /\ actionLoading' = [actionLoading EXCEPT ![user] = NoTarget]
    /\ inflight' = [inflight EXCEPT ![user] =
                       SubSeq(@, 1, k - 1) \o SubSeq(@, k + 1, Len(@))]
    /\ UNCHANGED <<friendList, events, settingsPage, editor>>

\* one user has opened the Dashboard on the initial store: the list is loaded
InitDashboard ==
    /\ schema \in {"status", "split"}
    /\ users = InitialUsers(Users)
    /\ profiles = SavedProfiles
    /\ matches = {}
    /\ blocked_users = {}
    /\ notifications = {}
    /\ \E user \in Users :
          \E fetched \in Orders(AllProfilesOf(user)) :
              /\ response = Invocation(user, TRUE, "none", fetched)
              /\ suggestions = [u \in Users |->
                                   IF u = user THEN response.reply.suggestions ELSE <<>>]
    /\ toast = NoToast
    /\ steps = 0
    /\ lastWrite = NoWrite
    /\ PagesInit

NextDashboard ==
    \/ \E user \in Users, i \in 1..Cardinality(Users), kind \in {"connect", "block"} :
          StartAction(user, i, kind)
    \/ \E user \in Users, k \in 1..MaxInflight, backendOk, notifOk \in BOOLEAN :
          FinishAction(user, k, backendOk, notifOk)

SpecDashboard == InitDashboard /\ [][NextDashboard]_vars

-----------------------------------------------------------------------------
(* Vocabulary of the properties *)

Replied == response # NoResponse

\* the invocation returned a list computed from the candidate profiles
Ranked ==
    /\ Replied
    /\ response.reply.status = 200
    /\ response.requester \in DOMAIN profiles

Returned == IF Replied THEN response.reply.suggestions ELSE <<>>

ReturnedIds == {Returned[i].user_id : i \in 1..Len(Returned)}

Blocks(u, v) == BlockRow(u, v) \in blocked_users

\* position of a user in the order the profiles were fetched
FetchIndex(u) == CHOOSE i \in 1..Len(response.fetched) : response.fetched[i] = u

\* the distinct tokens of an interest text
TokenSet(text) == Range(ParseInterestsRanker(text))

\* 2 * |A \cap A'| + |N \cap N'| over token sets
SetScore(cur, cand) ==
    2 * Cardinality(TokenSet(cur.profile_academic_interests)
                    \cap TokenSet(cand.profile_academic_interests))
    + Cardinality(TokenSet(cur.profile_non_academic_interests)
                  \cap TokenSet(cand.profile_non_academic_interests))

\* the tokens of a text in order, empty ones dropped
NonEmptyTokens(text) == SelectSeq(ParseInterestsRanker(text), LAMBDA t : t # <<>>)

\* the score when no empty token counts as a shared interest
ScoreWithoutEmpties(cur, cand) ==
    2 * SharedCount(NonEmptyTokens(cur.profile_academic_interests),
                    NonEmptyTokens(cand.profile_academic_interests))
    + SharedCount(NonEmptyTokens(cur.profile_non_academic_interests),
                  NonEmptyTokens(cand.profile_non_academic_interests))

-----------------------------------------------------------------------------
(* C2: if a blocked_users row (U blocks V) or (V blocks U) exists when U      *)
(* invokes get-match-suggestions, the returned list does not contain V.      *)
C2_BlockedNeverSuggested ==
    Replied =>
        \A v \in Users :
            (Blocks(response.requester, v) \/ Blocks(v, response.requester))
                => v \notin ReturnedIds

\* a ranked reply to a requester who is blocked by a fetched candidate
C2_Witness ==
    /\ Ranked
    /\ \E v \in Range(response.fetched) : Blocks(v, response.requester)

(* C3: the list returned for requester U has no entry whose user_id is U.    *)
C3_NeverSelf == Replied => response.requester \notin ReturnedIds

\* a ranked, non-empty reply
C3_Witness == Ranked /\ Len(Returned) > 0

(* C4: every returned candidate's compatibility_score equals                  *)
(* 2 * |A \cap A'| + |N \cap N'| over the token sets of requester and         *)
(* candidate (a repeated token counted once).                                 *)
C4_ScoreIsSetOverlap ==
    Ranked =>
        \A i \in 1..Len(Returned) :
            Returned[i].compatibility_score
                = SetScore(profiles[response.requester], profiles[Returned[i].user_id])

(* C5: an empty token present in both the requester's and a candidate's      *)
(* interest text never counts as a shared interest and never contributes to  *)
(* the score.                                                                 *)
C5_EmptyTokensNeverCount ==
    Ranked =>
        \A i \in 1..Len(Returned) :
            Returned[i].compatibility_score
                = ScoreWithoutEmpties(profiles[response.requester],
                                      profiles[Returned[i].user_id])

(* C6: the returned list is ordered by non-increasing compatibility_score,   *)
(* and candidates with equal scores keep the order in which the profiles     *)
(* were fetched.                                                              *)
C6_SortedStable ==
    Ranked =>
        \A i, j \in 1..Len(Returned) :
            i < j =>
                /\ Returned[i].compatibility_score >= Returned[j].compatibility_score
                /\ Returned[i].compatibility_score = Returned[j].compatibility_score
                      => FetchIndex(Returned[i].user_id) < FetchIndex(Returned[j].user_id)

\* the sort moved a later-fetched candidate with a higher score to the front
C6_Witness ==
    /\ Ranked
    /\ Len(Returned) = 2
    /\ Returned[1].compatibility_score > Returned[2].compatibility_score
    /\ FetchIndex(Returned[1].user_id) > FetchIndex(Returned[2].user_id)

\* users on the other end of any matches row of u, whatever its status
ConnectedOrPending(u) ==
    {v \in Users : \E st \in Statuses \cup {NoStatus} :
        MatchRow(u, v, st) \in matches \/ MatchRow(v, u, st) \in matches}

C10_Unauthenticated401 ==
    (Replied /\ ~response.authenticated) =>
        /\ response.reply.status = 401
        /\ response.reply.error # ""
        /\ ~response.reply.has_suggestions

-----------------------------------------------------------------------------
(* Relationships between two users *)

\* an unread match_request notification from u to v
RequestNotifications(u, v) ==
    {n \in notifications :
        n.type = "match_request" /\ ~n.read /\ n.from_user_id = u /\ n.user_id = v}

\* the stored connection requests from u to v: a pending matches row in the
\* status schema, a match_request notification in the split schema
StoredRequests(u, v) ==
    IF schema = "status"
    THEN {r \in matches :
            r.match_user1_id = u /\ r.match_user2_id = v /\ r.status = "pending"}
    ELSE RequestNotifications(u, v)

\* the accepted connections stored as a row (u, v)
AcceptedRows(u, v) ==
    {r \in matches :
        /\ r.match_user1_id = u
        /\ r.match_user2_id = v
        /\ r.status \in {"accepted", NoStatus}}

\* an accepted connection or a pending request exists between u and v
Related(u, v) ==
    \/ AcceptedRows(u, v) \cup AcceptedRows(v, u) # {}
    \/ StoredRequests(u, v) \cup StoredRequests(v, u) # {}

\* the matches rows between u and v, in either direction
RowsBetween(u, v) ==
    {r \in matches :
        \/ r.match_user1_id = u /\ r.match_user2_id = v
        \/ r.match_user1_id = v /\ r.match_user2_id = u}

(* C1: when an accepted connection or a pending request exists between U and *)
(* V, get-match-suggestions invoked by U does not return V, and invoked by V *)
(* does not return U.                                                         *)
C1_RelatedNeverSuggested ==
    Replied =>
        \A v \in Users : Related(response.requester, v) => v \notin ReturnedIds

(* C8: of the attempts to create the same connection request between two     *)
(* users, in the same or in opposite directions, one succeeds and the others *)
(* fail: at most one request for the pair is stored.                          *)
C8_OneRequestPerPair ==
    \A u, v \in Users :
        u # v => Cardinality(StoredRequests(u, v) \cup StoredRequests(v, u)) <= 1

(* C9: there is at most one relationship row per unordered pair of users     *)
(* (never both (U,V) and (V,U)), and no row has both endpoints equal.        *)
C9_OneRowPerPair ==
    /\ \A r \in matches : r.match_user1_id # r.match_user2_id
    /\ \A u, v \in Users : Cardinality(RowsBetween(u, v)) <= 1

-----------------------------------------------------------------------------
(* Failures and effects of one invocation *)

\* the backend reads whose failure (other than not-found) is thrown
FailingReads == {"profile", "profiles", "matches", "blocked", "blockedBy"}

\* the invocation reached a read that failed
ReadFailed ==
    /\ Replied
    /\ response.authenticated
    /\ response.readError \in FailingReads
    /\ response.readError = "profile" \/ response.requester \in DOMAIN profiles

(* C11: if a backend read of get-match-suggestions fails, the response has   *)
(* status 500 with an error body and carries no suggestion.                  *)
C11_ReadFailure500 ==
    ReadFailed =>
        /\ response.reply.status = 500
        /\ response.reply.error # ""
        /\ ~response.reply.has_suggestions
        /\ response.reply.suggestions = <<>>

\* the requester's profile lookup reported that no row exists (PGRST116)
ProfileMissing ==
    /\ Replied
    /\ response.authenticated
    /\ response.readError \notin {"users", "createUser", "profile"}
    /\ response.requester \notin DOMAIN profiles

(* C12: an authenticated requester without a profile row gets status 200     *)
(* with an empty suggestion list and the advisory message, never an error.   *)
C12_MissingProfileAdvisory ==
    ProfileMissing =>
        /\ response.reply.status = 200
        /\ response.reply.has_suggestions
        /\ response.reply.suggestions = <<>>
        /\ response.reply.message = AdvisoryMessage
        /\ response.reply.error = ""

\* a requester without a profile row was answered
C12_Witness == ProfileMissing /\ response.readError = "none"

(* C13: an invocation of get-match-suggestions leaves every table as it was, *)
(* whatever its outcome.                                                      *)
C13_PureRead ==
    [][(response' # response /\ response' # NoResponse) => store' = store]_vars

\* the candidates of a list with their scores, the order left out
EntryScores(list) ==
    {<<list[i].user_id, list[i].compatibility_score>> : i \in 1..Len(list)}

\* the orders in which a second invocation by the same requester, on the store
\* as the first one left it, can be handed the candidate profiles
SecondFetches ==
    IF response.requester \in DOMAIN profiles
    THEN Orders(AllProfilesOf(response.requester))
    ELSE {<<>>}

\* the invocation was answered with no read failing
Answered == Replied /\ response.authenticated /\ response.readError = "none"

(* C14: a second invocation for the same requester, with no store change by  *)
(* another operation in between, yields the same set of candidates and the   *)
(* same score for each candidate as the first.                               *)
C14_SecondCallSameScores ==
    Answered =>
        \A fetched \in SecondFetches :
            LET second == GetMatchSuggestions(response.requester, TRUE, "none", fetched)
            IN  /\ second.status = response.reply.status
                /\ EntryScores(second.suggestions) = EntryScores(response.reply.suggestions)

\* a ranked list of two candidates, which a second call can be handed in the
\* other order
C14_Witness ==
    /\ Ranked
    /\ Answered
    /\ Len(Returned) = 2
    /\ Cardinality(SecondFetches) > 1

\* v is excluded from the list of u by a matches row or by a block
Excluded(u, v) ==
    \/ RowsBetween(u, v) # {}
    \/ Blocks(u, v)
    \/ Blocks(v, u)

(* C16: a profile whose owner has user_priset_is_private = true is returned  *)
(* whenever no relationship and no block excludes it: the flag never removes *)
(* a candidate from the list.                                                *)
C16_PrivateStillSuggested ==
    Ranked =>
        \A v \in DOMAIN profiles \ {response.requester} :
            (users[v].user_priset_is_private /\ ~Excluded(response.requester, v))
                => v \in ReturnedIds

\* a private account is in the returned list
C16_Witness ==
    /\ Ranked
    /\ \E i \in 1..Len(Returned) :
          /\ Returned[i].user_priset_is_private
          /\ users[Returned[i].user_id].user_priset_is_private

-----------------------------------------------------------------------------
(* Relationships over time *)

\* the handler that ran last was op, by u on v, and it ended with this toast
LastWrite(op, u, v, title) ==
    /\ lastWrite = Write(op, u, v)
    /\ toast = Toast(u, title)

\* u is the requester of a ranked list computed after the last write
RankedFor(u) == Ranked /\ response.requester = u

\* a pending request between u and v, in either direction
PendingBetween(u, v) == StoredRequests(u, v) \cup StoredRequests(v, u) # {}

(* C15: after U blocked V and then unblocked V, with no other relationship   *)
(* or block between them, the next get-match-suggestions for U contains V.   *)
C15_UnblockedReappears ==
    \A u, v \in Users :
        ( /\ LastWrite("unblock", u, v, "User unblocked")
          /\ RankedFor(u)
          /\ RowsBetween(u, v) = {}
          /\ ~PendingBetween(u, v)
          /\ ~Blocks(v, u) )
            => v \in ReturnedIds

\* U unblocked V, loaded the Dashboard again and was handed V
C15_Witness ==
    \E u, v \in Users :
        /\ LastWrite("unblock", u, v, "User unblocked")
        /\ RankedFor(u)
        /\ v \in ReturnedIds

\* the matches rows a step stores that were not there before
NewRows == matches' \ matches

\* a row that stands for an accepted connection
IsAccepted(r) == r.status \in {"accepted", NoStatus}

\* the step is a call of a Dashboard connect handler
ConnectStep == steps' # steps /\ lastWrite'.op = "connect"

\* the step is a call of an accept handler by user
AcceptStepBy(user) ==
    steps' # steps /\ lastWrite'.op = "accept" /\ lastWrite'.user = user

(* C17: connecting from the Dashboard to a user whose account is private     *)
(* never stores an accepted connection: the row it stores, if any, is a      *)
(* pending request.                                                          *)
C17_PrivateConnectPending ==
    [][ConnectStep =>
          \A r \in NewRows :
              users[r.match_user2_id].user_priset_is_private => r.status = "pending"]_vars

(* C18: an accepted connection is only ever stored by the accept of a        *)
(* pending request: when a step stores an accepted row for (U, V), a pending *)
(* request from U to V existed before the step and the step is V accepting.  *)
C18_AcceptedOnlyFromPending ==
    [][\A r \in NewRows :
          IsAccepted(r) =>
              /\ StoredRequests(r.match_user1_id, r.match_user2_id) # {}
              /\ AcceptStepBy(r.match_user2_id)]_vars

\* v rejected the request of u: the reject handler ran last and reported success
RejectedBy(v, u) ==
    /\ lastWrite = Write("reject", v, u)
    /\ toast.user = v
    /\ toast.title \in {"Request Rejected", "Match Rejected"}

(* C19: after V rejects U's request no relationship row and no request       *)
(* remains for the pair, and each of the two is again handed the other by    *)
(* get-match-suggestions.                                                    *)
C19_RejectLeavesNothing ==
    \A u, v \in Users :
        RejectedBy(v, u) =>
            /\ RowsBetween(u, v) = {}
            /\ ~PendingBetween(u, v)
            /\ (RankedFor(u) /\ ~Blocks(u, v) /\ ~Blocks(v, u)) => v \in ReturnedIds
            /\ (RankedFor(v) /\ ~Blocks(u, v) /\ ~Blocks(v, u)) => u \in ReturnedIds

\* the requests from v to u a step stores that were not there before
NewRequests(v, u) == StoredRequests(v, u)' \ StoredRequests(v, u)

(* C20: while the block (U blocks V) exists, no step stores a connection     *)
(* request or a matches row from V to U, also when V acts on a list loaded   *)
(* before the block.                                                          *)
C20_BlockedCannotRequest ==
    [][\A u, v \in Users :
          Blocks(u, v) =>
              /\ NewRequests(v, u) = {}
              /\ \A r \in NewRows :
                    ~(r.match_user1_id = v /\ r.match_user2_id = u)]_vars

-----------------------------------------------------------------------------
(* The two writes of a handler *)

(* C24: when handleAcceptRequest has returned, whatever the outcome of its   *)
(* two writes, the matches row of (requester, acceptor) does not exist       *)
(* together with the match_request notification it answers; and when the     *)
(* insert of the row fails the notifications are left as they were.          *)
C24_AcceptRowXorRequest ==
    [][\A v \in Users :
          (AcceptStepBy(v) /\ schema = "split") =>
              /\ ~( /\ MatchRow(lastWrite'.target, v, NoStatus) \in matches'
                    /\ \E n \in notifications' :
                          /\ n.type = "match_request" /\ ~n.read
                          /\ n.from_user_id = lastWrite'.target /\ n.user_id = v )
              /\ NewRows = {} => notifications' = notifications]_vars

\* the match_request notifications that tell v about the pending row of u
RequestNoticesFor(u, v) ==
    {n \in notifications :
        n.type = "match_request" /\ n.from_user_id = u /\ n.user_id = v}

(* C29: in the status schema every pending matches row (U requested V) has   *)
(* a match_request notification to V from U, so that V sees the request.     *)
C29_PendingRowHasNotification ==
    schema = "status" =>
        \A r \in matches :
            r.status = "pending" =>
                RequestNoticesFor(r.match_user1_id, r.match_user2_id) # {}

-----------------------------------------------------------------------------
(* The order of the backend reads *)

\* in the last invocation every query b was preceded by a query a
IssuedBefore(a, b) ==
    \A j \in 1..Len(response.reads) :
        response.reads[j] = b => \E i \in 1..(j - 1) : response.reads[i] = a

(* C23: within one invocation the reads are issued one after another in the  *)
(* order requester profile, matches, blocked, blocked-by, and only then the  *)
(* candidate profiles.                                                       *)
C23_ReadOrder ==
    Replied =>
        /\ IssuedBefore("profile", "matches")
        /\ IssuedBefore("matches", "blocked")
        /\ IssuedBefore("blocked", "blockedBy")
        /\ IssuedBefore("blockedBy", "profiles")

-----------------------------------------------------------------------------
(* The friend list *)

(* C21: a friend V that U has blocked from the friend list stays out of the  *)
(* list of U while the block exists, whatever re-fetch (on mount or by the   *)
(* realtime channel) happens later.                                          *)
C21_BlockedFriendStaysRemoved ==
    \A u, v \in Users : Blocks(u, v) => v \notin FriendIds(u)

\* the channel holds the INSERT of a row that connects u and v, for the list of u
InsertPending(u, v) ==
    \E e \in events :
        /\ e.to = u
        /\ e.eventType = "INSERT"
        /\ v \in {e.match_user1_id, e.match_user2_id} \ {u}

(* C26: whenever a matches row involving U is inserted while the FriendList  *)
(* of U is mounted and subscribed, the list of U is eventually re-fetched    *)
(* and then contains the new friend (unless the list is unmounted or the row *)
(* is deleted first).                                                        *)
C26_InsertedFriendAppears ==
    \A u, v \in Users :
        InsertPending(u, v) ~>
            \/ v \in FriendIds(u)
            \/ ~friendList[u].mounted
            \/ RowsBetween(u, v) = {}

-----------------------------------------------------------------------------
(* Privacy flags and profile *)

\* the step is a toggle of the switch of key by user
ToggleStep(user, key) ==
    steps' # steps /\ lastWrite' = Write("toggle", user, key)

(* C27: a privacy toggle is optimistic with rollback. After a toggle whose   *)
(* update failed the switch displays what it displayed before and the stored *)
(* flag is unchanged; after a successful update the switch displays the      *)
(* stored flag; and no users row but the own one is ever written.            *)
C27_ToggleRollback ==
    [][\A user \in Users, key \in PrivacyKeys :
          ToggleStep(user, key) =>
              /\ toast'.title \in {"Error", "Success"}
              /\ toast'.title = "Error" =>
                    /\ settingsPage'[user][DisplayOf(key)] = settingsPage[user][DisplayOf(key)]
                    /\ users' = users
              /\ toast'.title = "Success" =>
                    settingsPage'[user][DisplayOf(key)] = users'[user][key]
              /\ \A other \in Users \ {user} : users'[other] = users[other]]_vars

\* a toggle of show_bio failed after a successful one: the switch went back
C27_Witness ==
    \E user \in Users :
        /\ lastWrite = Write("toggle", user, "user_priset_show_bio")
        /\ toast = Toast(user, "Error")
        /\ ~users[user].user_priset_show_bio
        /\ ~settingsPage[user].showBio

(* C28: a submit with a blank (empty or whitespace-only) username or         *)
(* birthdate writes nothing to profiles, uploads nothing, reports a          *)
(* validation error and leaves saving false; so no stored profile has a      *)
(* blank username or birthdate because of handleSubmit.                      *)
C28_BlankNeverSaved ==
    [][\A user \in Users :
          (steps' # steps /\ lastWrite' = Write("save", user, user)) =>
              /\ \A form \in {f \in Forms : Blank(f)}, avatarFile, backendOk \in BOOLEAN :
                    HandleSubmit(user, form, avatarFile, backendOk) =>
                        /\ profiles' = profiles
                        /\ editor'[user].uploads = editor[user].uploads
                        /\ toast' = Toast(user, "Validation Error")
                        /\ ~editor'[user].saving
              /\ \A u \in DOMAIN profiles' :
                    ~Blank(profiles[u]) => ~Blank(profiles'[u])]_vars

\* a submit with a blank field was refused after a profile was saved
C28_Witness ==
    \E user \in Users :
        /\ lastWrite = Write("save", user, user)
        /\ toast = Toast(user, "Validation Error")
        /\ \E u \in Users : profiles[u] # SavedProfiles[u]

\* the step changes nothing in the store but the bio of v, hidden by show_bio,
\* or nothing but the birthdate of v, hidden by show_age
OnlyHiddenFieldChanged(v) ==
    /\ UNCHANGED <<users, matches, blocked_users, notifications>>
    /\ profiles' # profiles
    /\ \/ /\ ~users[v].user_priset_show_bio
          /\ profiles' = [profiles EXCEPT ![v].profile_bio = profiles'[v].profile_bio]
       \/ /\ ~users[v].user_priset_show_age
          /\ profiles' = [profiles EXCEPT
                             ![v].profile_birthdate = profiles'[v].profile_birthdate]

(* C22: two stores that differ only in the bio of a candidate whose show_bio *)
(* is false, or only in the birthdate of a candidate whose show_age is       *)
(* false, give every requester the same get-match-suggestions response.      *)
C22_HiddenFieldsNoninterference ==
    [][\A v \in Users :
          OnlyHiddenFieldChanged(v) =>
              \A requester \in Users \ {v} :
                  \A fetched \in Orders(AllProfilesOf(requester)) :
                      GetMatchSuggestions(requester, TRUE, "none", fetched)'
                          = GetMatchSuggestions(requester, TRUE, "none", fetched)]_vars

-----------------------------------------------------------------------------
(* The Dashboard while its requests are in flight *)

C30_OneRequestPerTarget ==
    \A user \in Users :
        \A j, k \in 1..Len(inflight[user]) :
            inflight[user][j].target = inflight[user][k].target => j = k

====
